---- MODULE Spec2Model ----
(***************************************************************************)
(* Verification model of snip727-v2: the N-of-4 strategy service           *)
(* (src/src/snip727/services/strategy.py), the RPC client with fallback    *)
(* (src/src/snip727/web3/client.py) and the Uniswap factory monitor        *)
(* (src/src/snip727/web3/monitor.py).                                      *)
(*                                                                         *)
(* The specifications share the module, one per component or function:    *)
(*   SpecStrategy  the evaluation loop over the strategy_signals table     *)
(*   SpecVote      one pass of the loop over any table of signal rows      *)
(*   SpecScore     _calculate_alert_score as a function of its dict        *)
(*   SpecEngine    the strategy engine's event intake                      *)
(*   SpecClient    AsyncWeb3Client: connect, block number, logs            *)
(*   SpecMonitor   UniswapMonitor: the v2/v3 factory polling loops         *)
(*   SpecHandlers  the Mint and Swap handlers as functions of one log      *)
(*   SpecApp       Snip727App: initialize, start_services, shutdown        *)
(* Scores are kept in tenths (0.6 is 6).                                   *)
(***************************************************************************)
EXTENDS Integers, Sequences, FiniteSets, Bags, TLC

VARIABLES
    \* ---- strategy service and the tables it reads and writes
    running,          \* StrategyService.running
    alert_callbacks,  \* StrategyService.alert_callbacks (a list of sinks)
    loop,             \* position of _continuous_evaluation
    pools_to_check,   \* what is left of the for loop's list
    strategy_signals, \* table strategy_signals (the active rows), a bag of rows
    recent_activity,  \* pools with a row created within the last hour
    db_pools,         \* table pools: the registered addresses
    sentiment,        \* per pool: the average stored sentiment score, or NoScore
    db_alerts,        \* table alerts: the number of rows saved
    chain_head,       \* the chain's latest block number
    \* ---- history of the strategy service (not program state)
    sinceAlert,       \* per pool: "never" | "none" | "new" evidence since its last alert
    lastEval,         \* what _evaluate_pool saw and did, in the state right after it
    last_known,       \* history: what get_current_signals returned when the store last answered
    lastRead,         \* history: what the last get_current_signals did, in the state right after it
    \* ---- AsyncWeb3Client and the endpoints it talks to
    current_rpc_index, \* AsyncWeb3Client.current_rpc_index
    w3,                \* AsyncWeb3Client.w3: the endpoint its provider points at, or NoW3
    health,            \* per endpoint: "up" | "down" (liveness check fails) | "bad" (provider raises)
    lastCall,          \* history: what the last client operation did, in the state right after it
    redis,             \* AsyncWeb3Client.redis is set
    abi_cache,         \* per contract: the redis entry "abi:<address>", a set of at most one string
    block_fresh,       \* history: a block number was read and the block-number TTL has not elapsed since
    \* ---- UniswapMonitor and the factories' logs
    m_running,         \* UniswapMonitor.running
    monitored_pools,   \* UniswapMonitor.monitored_pools
    poll,              \* per factory version: position of its polling loop
    events,            \* per factory version: what is left of the for loop's list of logs
    factory_logs,      \* the creation logs on the chain
    m_head,            \* the chain's latest block number, as the monitor's client reports it
    emitted,           \* history: per pool, the number of on_event calls for its creation
    lastHandled,       \* history: what the last creation handler did, in the state right after it
    activity,          \* position of _monitor_existing_pools
    pools_queue,       \* what is left of its for loop's list of pools
    delivered,         \* history: the pools whose creation event on_event has handled to the end
    aborted,           \* history: the loops a cancellation stopped in the middle of an iteration
    lastIter,          \* history: the loop that last polled, and whether its client call raised
    polled,            \* history: per factory version, the head at its last successful poll, or 0
    \* ---- calls of the pure functions: the arguments, and the results once computed
    score_call,        \* _calculate_alert_score on a dict of signals and on the dict with one more key
    \* ---- the strategy engine's signal history
    engine_signals,    \* Nof4Strategy.signals: the list of Signal
    lastProcessed,     \* history: the event process_event last took, and the list's length before
    \* ---- the pool activity handlers, and the application
    handler_call,      \* _handle_mint_event / _handle_swap_event on one log, and what it delivered
    app                \* Snip727App: the position of _run_async, running, the tasks created

xvars == <<score_call, engine_signals, lastProcessed, handler_call, app>>

rvars == <<last_known, lastRead>>

cvars == <<current_rpc_index, w3, health, lastCall, redis, abi_cache, block_fresh>>

mvars == <<m_running, monitored_pools, poll, events, factory_logs, m_head, emitted,
           lastHandled, activity, pools_queue, delivered, aborted, lastIter, polled>>

svars == <<running, alert_callbacks, loop, pools_to_check, strategy_signals,
           recent_activity, db_pools, sentiment, db_alerts, chain_head, sinceAlert,
           lastEval>>

vars == <<svars, rvars, cvars, mvars, xvars>>

----------------------------------------------------------------------------
(* Bounds of the model *)
MaxSignals == 3      \* rows in strategy_signals
MaxCallbacks == 2    \* registered callbacks
MaxAlerts == 2       \* rows in table alerts
StartBlock == 1      \* the head when the model starts
BlockJump == 16      \* blocks mined between two observations of the head
MaxHead == 17        \* the head stops advancing here

(* Settings, src/src/snip727/core/config.py *)
strategy_signals_required == 3
new_pool_blocks_threshold == 15
sentiment_threshold == 6

Pools == {"0xaa", "0xbb"}
WriterPools == {"0xaa"}   \* the pools whose rows the writers of the tables change
Sinks == {"app", "bot"}
EventSignalTypes == {"new_pool", "liquidity_spike", "whale_buy"}
SignalTypes == EventSignalTypes \cup {"sentiment"}
NoScore == -100
SentimentValues == {NoScore, 5, 6}

(* Every ordering of a finite set, as sequences without repetition. *)
Orderings(S) ==
    {s \in [1..Cardinality(S) -> S] : \A i, j \in 1..Cardinality(S) : s[i] = s[j] => i = j}

----------------------------------------------------------------------------
(* StrategyService *)

RowsOf(p) == {r \in BagToSet(strategy_signals) : r.pool_address = p}

AlwaysValid(r, current_block) == TRUE

(* _is_signal_valid: expiry, then block age for the time-sensitive types. *)
IsSignalValid(r, current_block) ==
    IF r.expired THEN FALSE
    ELSE IF /\ r.signal_type \in EventSignalTypes
            /\ r.block_number # 0
            /\ current_block - r.block_number > new_pool_blocks_threshold
         THEN FALSE
         ELSE TRUE

(* _get_current_block: the head, or 0 when the client raises. *)
GetCurrentBlock(blk_ok) == IF blk_ok THEN chain_head ELSE 0

SentimentCounts(p) ==
    /\ sentiment[p] # NoScore
    /\ sentiment[p] # 0
    /\ sentiment[p] >= sentiment_threshold

(* _get_pool_signals: the dict's keys. A failed query leaves the dict empty. *)
GetPoolSignals(p, current_block, sig_ok) ==
    IF ~sig_ok THEN {}
    ELSE {r.signal_type : r \in {x \in RowsOf(p) : IsSignalValid(x, current_block)}}
         \cup (IF SentimentCounts(p) THEN {"sentiment"} ELSE {})

(* The number of rows of a bag among the set S of its elements. *)
Copies(S) ==
    LET Sum[T \in SUBSET S] ==
            IF T = {} THEN 0
            ELSE LET r == CHOOSE x \in T : TRUE
                 IN CopiesIn(r, strategy_signals) + Sum[T \ {r}]
    IN Sum[S]

(* Active rows of p of type t. *)
RowCount(p, t) == Copies({r \in RowsOf(p) : r.signal_type = t})

(* Rows of p of type t that the vote read as valid (sentiment: 0 or 1). *)
ValidCount(p, t, current_block, sig_ok) ==
    IF ~sig_ok THEN 0
    ELSE IF t = "sentiment" THEN (IF SentimentCounts(p) THEN 1 ELSE 0)
    ELSE Copies({r \in RowsOf(p) : r.signal_type = t /\ IsSignalValid(r, current_block)})

(* _evaluate_pool's test: the number of keys against the required number. *)
VoteQualifies(signals) == Cardinality(signals) >= strategy_signals_required

(* _get_active_pools: the pools with an active row created in the last hour. *)
GetActivePools == recent_activity

(* What _generate_alert does to a pool's rows: nothing. *)
SignalsAfterAlert(p) == strategy_signals

(* _calculate_alert_score, in thousandths. The rows of the model carry no  *)
(* signal_value (the column is NULL), which the code scores as 0.5; the    *)
(* sentiment entry carries the stored score.                               *)
SignalWeight(t) ==
    IF t = "new_pool" THEN 300
    ELSE IF t = "sentiment" THEN 200
    ELSE IF t \in {"liquidity_spike", "whale_buy"} THEN 250
    ELSE 100

(* One key's term: weight * value. A sentiment value is in tenths and is   *)
(* floored at 0; any other value is divided by 100 and capped at 1, and a  *)
(* value of None or 0 (0 here) counts as 0.5.                              *)
WeightedValue(t, value) ==
    IF t = "sentiment"
    THEN (SignalWeight(t) * (IF value > 0 THEN value ELSE 0)) \div 10
    ELSE IF value = 0 THEN SignalWeight(t) \div 2
    ELSE (SignalWeight(t) * (IF value > 100 THEN 100 ELSE value)) \div 100

Uncapped(score) == score

(* "return min(1.0, score)" *)
CapScore(score) == IF score > 1000 THEN 1000 ELSE score

(* _calculate_alert_score of a dict signal_type -> value, in thousandths. *)
AlertScore(signals) ==
    LET Sum[T \in SUBSET DOMAIN signals] ==
            IF T = {} THEN 0
            ELSE LET t == CHOOSE x \in T : TRUE
                 IN WeightedValue(t, signals[t]) + Sum[T \ {t}]
    IN CapScore(Sum[DOMAIN signals])

SignalScore(p, t) == WeightedValue(t, IF t = "sentiment" THEN sentiment[p] ELSE 0)

CalculateAlertScore(p, signals) ==
    AlertScore([t \in signals |-> IF t = "sentiment" THEN sentiment[p] ELSE 0])

AbortDelivery(i, raises, invoked) == [invoked |-> invoked, completed |-> FALSE]

(* _generate_alert's loop over alert_callbacks from position i on: raises  *)
(* are the positions whose callback raises, invoked the callbacks called   *)
(* so far. completed: the statement after the loop was reached.            *)
RECURSIVE DeliverFrom(_, _, _)
RECURSIVE AfterCallbackRaises(_, _, _)
DeliverFrom(i, raises, invoked) ==
    IF i > Len(alert_callbacks)
    THEN [invoked |-> invoked, completed |-> TRUE]
    ELSE IF i \in raises
         THEN AfterCallbackRaises(i, raises, Append(invoked, alert_callbacks[i]))
         ELSE DeliverFrom(i + 1, raises, Append(invoked, alert_callbacks[i]))

(* "except Exception: logger.error(...)": the loop goes on. *)
AfterCallbackRaises(i, raises, invoked) == DeliverFrom(i + 1, raises, invoked)

NoEval ==
    [pool |-> "none", clean |-> TRUE,
     rows |-> [t \in SignalTypes |-> 0], valid |-> [t \in SignalTypes |-> 0],
     since |-> "never", qualified |-> FALSE, fired |-> FALSE, signal_count |-> 0,
     types |-> {}, score |-> 0, invoked |-> <<>>, raised |-> {}, completed |-> FALSE,
     current_block |-> 0, read_ok |-> TRUE, counted |-> {}, left_before |-> <<>>]

SInit ==
    /\ running = FALSE
    /\ alert_callbacks = <<>>
    /\ loop = "none"
    /\ pools_to_check = <<>>
    /\ strategy_signals = EmptyBag
    /\ recent_activity = {}
    /\ db_pools = {}
    /\ sentiment = [p \in Pools |-> NoScore]
    /\ db_alerts = 0
    /\ chain_head = StartBlock
    /\ sinceAlert = [p \in Pools |-> "never"]
    /\ lastEval = NoEval

Evidence(p) == [sinceAlert EXCEPT ![p] = IF @ = "never" THEN "never" ELSE "new"]

ServeLastKnown(known) == known

(* get_current_signals' handler of a failed query: log, return []. *)
OnReadFailure(known) == EmptyBag

(* The query of get_current_signals: the active rows of the last hour,     *)
(* joined with their pools. Rows are told apart by pool and type; the      *)
(* order and the limit of 50 are left out.                                 *)
CurrentSignalsQuery ==
    LET recent == {r \in BagToSet(strategy_signals) :
                      r.pool_address \in recent_activity \cap db_pools}
    IN [r \in recent |-> CopiesIn(r, strategy_signals)]

NoRead == [op |-> "none", ok |-> TRUE, raised |-> FALSE, returned |-> EmptyBag,
           known_before |-> EmptyBag]

RInit ==
    /\ last_known = EmptyBag
    /\ lastRead = NoRead

(* The rows the table strategy_signals can hold for the event types: the  *)
(* block number is nullable (0 here), expires_at may lie in the past.      *)
SignalRows ==
    [pool_address : WriterPools, signal_type : EventSignalTypes,
     block_number : {0, StartBlock, MaxHead}, expired : BOOLEAN]

(* The one row of the pool the writers leave alone. *)
OtherRow ==
    [pool_address |-> "0xbb", signal_type |-> "new_pool", block_number |-> MaxHead,
     expired |-> FALSE]

SeqToBag(rows) ==
    [r \in {rows[i] : i \in DOMAIN rows} |-> Cardinality({i \in DOMAIN rows : rows[i] = r})]

(* The evaluation loop in the middle of an iteration, over any table. *)
VoteInit ==
    /\ running = TRUE
    /\ alert_callbacks = <<"app">>
    /\ loop = "for"
    /\ \E n \in 0..MaxSignals : \E rows \in [1..n -> SignalRows] :
          strategy_signals \in {SeqToBag(rows), SeqToBag(rows) (+) SetToBag({OtherRow})}
    /\ recent_activity = {r.pool_address : r \in BagToSet(strategy_signals)}
    /\ pools_to_check \in Orderings(recent_activity)
    /\ db_pools = Pools
    /\ \E v \in SentimentValues :
          sentiment = [p \in Pools |-> IF p \in WriterPools THEN v ELSE NoScore]
    /\ db_alerts = 0
    /\ chain_head = MaxHead
    /\ sinceAlert = [p \in Pools |-> "never"]
    /\ lastEval = NoEval

(* The dicts _calculate_alert_score can be given: any signal types, one   *)
(* of them outside the table of weights, with the values a Float column    *)
(* or an average sentiment can hold.                                       *)
ScoreTypes == SignalTypes \cup {"other"}

ScoreValues(t) == IF t = "sentiment" THEN {-5, 6, 10} ELSE {-50, 0, 50, 200}

SignalDicts ==
    {d \in UNION {[T -> {-50, -5, 0, 6, 10, 50, 200}] : T \in SUBSET ScoreTypes} :
        \A t \in DOMAIN d : d[t] \in ScoreValues(t)}

NoScoreCall == [signals |-> <<>>, type |-> "none", value |-> 0, computed |-> {},
                score |-> 0, extended |-> 0]

NoProcessed == [event_type |-> "none", pool_address |-> "none", len_before |-> 0]

(* No log is being handled. *)
NoHandlerCall == [handler |-> "none", decodable |-> FALSE, amounts |-> <<>>,
                  returned |-> FALSE, raised |-> FALSE, event |-> "none"]

(* Snip727App before _run_async. *)
NoApp == [position |-> "new", running |-> FALSE, tasks |-> {}]

XInit ==
    /\ score_call = NoScoreCall
    /\ engine_signals = <<>>
    /\ lastProcessed = NoProcessed
    /\ handler_call = NoHandlerCall
    /\ app = NoApp

(* Any dict, and a key it does not hold with a value for it. *)
ScoreInit ==
    \E d \in SignalDicts : \E t \in ScoreTypes \ DOMAIN d : \E v \in ScoreValues(t) :
        /\ score_call = [signals |-> d, type |-> t, value |-> v, computed |-> {},
                         score |-> 0, extended |-> 0]
        /\ engine_signals = <<>>
        /\ lastProcessed = NoProcessed
        /\ handler_call = NoHandlerCall
        /\ app = NoApp

(* The dict with one more key. *)
WithSignal(d, t, v) == [k \in DOMAIN d \cup {t} |-> IF k = t THEN v ELSE d[k]]

(* _calculate_alert_score(signals) *)
CalculateScore ==
    /\ "base" \notin score_call.computed
    /\ score_call' = [score_call EXCEPT !.score = AlertScore(score_call.signals),
                                        !.computed = @ \cup {"base"}]
    /\ UNCHANGED <<engine_signals, lastProcessed, handler_call, app>>
    /\ UNCHANGED <<svars, rvars, cvars, mvars>>

(* _calculate_alert_score(signals with one more key) *)
CalculateExtended ==
    /\ "extended" \notin score_call.computed
    /\ score_call' =
          [score_call EXCEPT !.extended = AlertScore(WithSignal(score_call.signals,
                                                                score_call.type,
                                                                score_call.value)),
                             !.computed = @ \cup {"extended"}]
    /\ UNCHANGED <<engine_signals, lastProcessed, handler_call, app>>
    /\ UNCHANGED <<svars, rvars, cvars, mvars>>

----------------------------------------------------------------------------
(* The strategy engine's event intake (Nof4Strategy.process_event). Its    *)
(* code is not among the repository's files: it is modelled from the       *)
(* specification, section 4.4. Confidences are in hundredths.              *)
MaxHistory == 3      \* engine_signals in the history

EventTypes == {"v2_pair_created", "v3_pool_created", "liquidity_spike", "whale_buy"}

SignalTypeOf(event_type) ==
    IF event_type \in {"v2_pair_created", "v3_pool_created"} THEN "new_pool"
    ELSE event_type

(* What the magnitude of an event scales to, before the cap. *)
ScaledConfidences == {0, 50, 70, 90, 95, 120}

Unbounded(signal_type) == 1000

(* "capped at 0.9", "capped at 0.95" *)
ConfidenceCap(signal_type) ==
    IF signal_type = "liquidity_spike" THEN 90
    ELSE IF signal_type = "whale_buy" THEN 95
    ELSE 100

(* "fixed confidence (0.7)" for a creation, "scaled by magnitude, capped". *)
Confidence(signal_type, scaled) ==
    IF signal_type = "new_pool" THEN 70
    ELSE IF scaled > ConfidenceCap(signal_type) THEN ConfidenceCap(signal_type)
    ELSE scaled

ProcessEvent(event_type, p, scaled) ==
    /\ Len(engine_signals) < MaxHistory
    /\ engine_signals' = Append(engine_signals, [signal_type |-> SignalTypeOf(event_type),
                                   pool_address |-> p,
                                   confidence |-> Confidence(SignalTypeOf(event_type),
                                                             scaled)])
    /\ lastProcessed' = [event_type |-> event_type, pool_address |-> p,
                         len_before |-> Len(engine_signals)]
    /\ UNCHANGED <<score_call, handler_call, app>>
    /\ UNCHANGED <<svars, rvars, cvars, mvars>>

EngineNext ==
    \E event_type \in EventTypes, p \in {"0xaa", "0xbb"}, scaled \in ScaledConfidences :
        ProcessEvent(event_type, p, scaled)

----------------------------------------------------------------------------
ScoreNext ==
    \/ CalculateScore
    \/ CalculateExtended

(* add_alert_callback *)
AddAlertCallback(s) ==
    /\ Len(alert_callbacks) < MaxCallbacks
    /\ alert_callbacks' = Append(alert_callbacks, s)
    /\ lastEval' = NoEval
    /\ UNCHANGED <<xvars, cvars, mvars, rvars>>
    /\ UNCHANGED <<running, loop, pools_to_check, strategy_signals, recent_activity,
                   db_pools, sentiment, db_alerts, chain_head, sinceAlert>>

(* start: sets the flag and runs _continuous_evaluation. *)
Start ==
    /\ loop \in {"none", "exited"}
    /\ running' = TRUE
    /\ loop' = "top"
    /\ lastEval' = NoEval
    /\ UNCHANGED <<xvars, cvars, mvars, rvars>>
    /\ UNCHANGED <<alert_callbacks, pools_to_check, strategy_signals, recent_activity,
                   db_pools, sentiment, db_alerts, chain_head, sinceAlert>>

(* stop *)
Stop ==
    /\ running
    /\ running' = FALSE
    /\ lastEval' = NoEval
    /\ UNCHANGED <<xvars, cvars, mvars, rvars>>
    /\ UNCHANGED <<alert_callbacks, loop, pools_to_check, strategy_signals,
                   recent_activity, db_pools, sentiment, db_alerts, chain_head,
                   sinceAlert>>

LoopForever(flag) == TRUE

(* "while self.running" *)
LoopCondition(flag) == flag

(* _continuous_evaluation: the while test and _get_active_pools (the database *)
(* returns the addresses in any order; a failed query gives the empty list).  *)
LoopTop ==
    /\ loop = "top"
    /\ IF LoopCondition(running)
       THEN /\ loop' = "for"
            /\ \E db_ok \in BOOLEAN :
                 \E order \in Orderings(IF db_ok THEN GetActivePools ELSE {}) :
                    pools_to_check' = order
       ELSE /\ loop' = "exited"
            /\ pools_to_check' = <<>>
    /\ lastEval' = NoEval
    /\ UNCHANGED <<xvars, cvars, mvars, rvars>>
    /\ UNCHANGED <<running, alert_callbacks, strategy_signals, recent_activity, db_pools,
                   sentiment, db_alerts, chain_head, sinceAlert>>

(* _evaluate_pool with _get_pool_signals and _generate_alert, for the next   *)
(* pool of the for loop. db is the one database step that fails, if any.     *)
EvaluatePool ==
    /\ loop = "for"
    /\ pools_to_check # <<>>
    /\ db_alerts < MaxAlerts
    /\ LET p == Head(pools_to_check) IN
       \E blk_ok \in BOOLEAN, db \in {"ok", "signals", "info", "save"},
          raises \in SUBSET (1..Len(alert_callbacks)) :
          LET current_block == GetCurrentBlock(blk_ok)
              signals == GetPoolSignals(p, current_block, db # "signals")
              pool_info == p \in db_pools /\ db # "info"
              fires == VoteQualifies(signals) /\ pool_info
              delivery == DeliverFrom(1, raises, <<>>)
          IN /\ (~fires => raises = {})
             /\ lastEval' = [pool |-> p, clean |-> (blk_ok /\ db = "ok"),
                             rows |-> [t \in SignalTypes |->
                                         IF t = "sentiment"
                                         THEN ValidCount(p, t, current_block, TRUE)
                                         ELSE RowCount(p, t)],
                             valid |-> [t \in SignalTypes |->
                                          ValidCount(p, t, current_block, db # "signals")],
                             since |-> sinceAlert[p],
                             qualified |-> VoteQualifies(signals),
                             fired |-> fires,
                             signal_count |-> IF fires THEN Cardinality(signals) ELSE 0,
                             types |-> IF fires THEN signals ELSE {},
                             score |-> IF fires THEN CalculateAlertScore(p, signals)
                                       ELSE 0,
                             invoked |-> IF fires THEN delivery.invoked ELSE <<>>,
                             raised |-> raises,
                             completed |-> fires /\ delivery.completed,
                             current_block |-> current_block,
                             read_ok |-> db # "signals",
                             counted |-> signals,
                             left_before |-> pools_to_check]
             /\ IF fires
                THEN /\ db_alerts' = IF db = "save" THEN db_alerts ELSE db_alerts + 1
                     /\ sinceAlert' = [sinceAlert EXCEPT ![p] = "none"]
                     /\ strategy_signals' = SignalsAfterAlert(p)
                ELSE UNCHANGED <<db_alerts, sinceAlert, strategy_signals>>
    /\ pools_to_check' = Tail(pools_to_check)
    /\ UNCHANGED <<xvars, cvars, mvars, rvars>>
    /\ UNCHANGED <<running, alert_callbacks, loop, recent_activity, db_pools, sentiment,
                   chain_head>>

(* The end of the for loop: asyncio.sleep(10), then the while test again. *)
EndIteration ==
    /\ loop = "for"
    /\ pools_to_check = <<>>
    /\ loop' = "top"
    /\ lastEval' = NoEval
    /\ UNCHANGED <<xvars, cvars, mvars, rvars>>
    /\ UNCHANGED <<running, alert_callbacks, pools_to_check, strategy_signals,
                   recent_activity, db_pools, sentiment, db_alerts, chain_head,
                   sinceAlert>>

(* The writers of the tables, outside the strategy service. *)
RegisterPool(p) ==
    /\ p \notin db_pools
    /\ db_pools' = db_pools \cup {p}
    /\ lastEval' = NoEval
    /\ UNCHANGED <<xvars, cvars, mvars, last_known>>
    /\ lastRead' = NoRead
    /\ UNCHANGED <<running, alert_callbacks, loop, pools_to_check, strategy_signals,
                   recent_activity, sentiment, db_alerts, chain_head,
                   sinceAlert>>

RecordSignal(p, t) ==
    /\ p \in db_pools
    /\ BagCardinality(strategy_signals) < MaxSignals
    /\ strategy_signals' = strategy_signals (+)
          SetToBag({[pool_address |-> p, signal_type |-> t, block_number |-> chain_head,
                     expired |-> FALSE]})
    /\ recent_activity' = recent_activity \cup {p}
    /\ sinceAlert' = Evidence(p)
    /\ lastEval' = NoEval
    /\ UNCHANGED <<xvars, cvars, mvars, last_known>>
    /\ lastRead' = NoRead
    /\ UNCHANGED <<running, alert_callbacks, loop, pools_to_check, db_pools, sentiment,
                   db_alerts, chain_head>>

UpdateSentiment(p, v) ==
    /\ p \in db_pools
    /\ sentiment[p] # v
    /\ sentiment' = [sentiment EXCEPT ![p] = v]
    /\ sinceAlert' = Evidence(p)
    /\ lastEval' = NoEval
    /\ UNCHANGED <<xvars, cvars, mvars, rvars>>
    /\ UNCHANGED <<running, alert_callbacks, loop, pools_to_check, strategy_signals,
                   recent_activity, db_pools, db_alerts, chain_head>>

(* Time passing: an hour goes by without a new row for the pool. *)
HourPasses(p) ==
    /\ p \in recent_activity
    /\ recent_activity' = recent_activity \ {p}
    /\ lastEval' = NoEval
    /\ UNCHANGED <<xvars, cvars, mvars, last_known>>
    /\ lastRead' = NoRead
    /\ UNCHANGED <<running, alert_callbacks, loop, pools_to_check, strategy_signals,
                   db_pools, sentiment, db_alerts, chain_head, sinceAlert>>

(* Blocks are mined. *)
AdvanceHead ==
    /\ chain_head + BlockJump <= MaxHead
    /\ chain_head' = chain_head + BlockJump
    /\ lastEval' = NoEval
    /\ UNCHANGED <<xvars, cvars, mvars, rvars>>
    /\ UNCHANGED <<running, alert_callbacks, loop, pools_to_check, strategy_signals,
                   recent_activity, db_pools, sentiment, db_alerts,
                   sinceAlert>>

(* get_current_signals *)
GetCurrentSignals ==
    \E db_ok \in BOOLEAN :
      LET returned == IF db_ok THEN CurrentSignalsQuery ELSE OnReadFailure(last_known)
      IN /\ lastRead' = [op |-> "get_current_signals", ok |-> db_ok, raised |-> FALSE,
                         returned |-> returned, known_before |-> last_known]
         /\ last_known' = IF db_ok THEN returned ELSE last_known
         /\ lastEval' = NoEval
         /\ UNCHANGED <<running, alert_callbacks, loop, pools_to_check, strategy_signals,
                        recent_activity, db_pools, sentiment, db_alerts, chain_head,
                        sinceAlert>>
         /\ UNCHANGED <<xvars, cvars, mvars>>

(* The read API with the writers of the tables it reads. *)
RNext ==
    \/ GetCurrentSignals
    \/ \E p \in WriterPools : RegisterPool(p)
    \/ \E p \in WriterPools, t \in EventSignalTypes : RecordSignal(p, t)
    \/ \E p \in WriterPools : HourPasses(p)

VoteNext ==
    \/ LoopTop
    \/ EvaluatePool
    \/ EndIteration

SNext ==
    \/ \E s \in Sinks : AddAlertCallback(s)
    \/ Start
    \/ Stop
    \/ LoopTop
    \/ EvaluatePool
    \/ EndIteration
    \/ \E p \in WriterPools : RegisterPool(p)
    \/ \E p \in WriterPools, t \in EventSignalTypes : RecordSignal(p, t)
    \/ \E p \in WriterPools, v \in SentimentValues : UpdateSentiment(p, v)
    \/ \E p \in WriterPools : HourPasses(p)
    \/ AdvanceHead

----------------------------------------------------------------------------
(* Claims about the strategy service, checked under SpecStrategy.          *)
(* lastEval describes the state right after an _evaluate_pool: every other *)
(* action resets it.                                                       *)

SumOver(f) ==
    f["new_pool"] + f["liquidity_spike"] + f["whale_buy"] + f["sentiment"]

C4_AlertReportsVoteCount ==
    /\ lastEval.fired =>
          /\ lastEval.signal_count = SumOver(lastEval.valid)
          /\ lastEval.signal_count >= strategy_signals_required
    /\ ( /\ lastEval.pool # "none"
         /\ lastEval.clean
         /\ lastEval.valid = [t \in SignalTypes |->
                                IF t = "liquidity_spike" THEN 3 ELSE 0] )
        => /\ lastEval.fired
           /\ lastEval.types = {"liquidity_spike"}
           /\ lastEval.signal_count = 3

C12_CallbackFailuresIsolated ==
    lastEval.fired =>
        /\ lastEval.invoked = alert_callbacks
        /\ lastEval.completed

(* An alert with two callbacks, the first of which raised. *)
C12_Witness ==
    /\ lastEval.fired
    /\ Len(alert_callbacks) = 2
    /\ 1 \in lastEval.raised
    /\ lastEval.invoked = alert_callbacks
    /\ lastEval.completed

C15_PersistenceFireAndForget ==
    (lastEval.pool # "none" /\ lastEval.qualified)
        => lastEval.invoked = alert_callbacks

FreshRows(p, t, current_block, zero_exempt) ==
    {r \in RowsOf(p) :
        /\ r.signal_type = t
        /\ ~r.expired
        /\ \/ current_block - r.block_number <= new_pool_blocks_threshold
           \/ (zero_exempt /\ r.block_number = 0)}

(* C21 as stated: an evaluation whose query succeeded counts, for each     *)
(* event type, exactly the rows that are not expired and whose block age   *)
(* (current_block - block_number) is within new_pool_blocks_threshold.     *)
C21_OnlyValidCounted ==
    (lastEval.pool # "none" /\ lastEval.read_ok) =>
        \A t \in EventSignalTypes :
            lastEval.valid[t] =
                Copies(FreshRows(lastEval.pool, t, lastEval.current_block, FALSE))

(* C21, amended: the same, except that a row whose block number is absent  *)
(* or zero is never invalidated by age; the vote's keys are the event      *)
(* types with a counted row, and sentiment when it reaches its threshold.  *)
C21_OnlyValidCountedNonZero ==
    (lastEval.pool # "none" /\ lastEval.read_ok) =>
        /\ \A t \in EventSignalTypes :
              lastEval.valid[t] =
                  Copies(FreshRows(lastEval.pool, t, lastEval.current_block, TRUE))
        /\ lastEval.counted \cap EventSignalTypes =
              {t \in EventSignalTypes :
                  FreshRows(lastEval.pool, t, lastEval.current_block, TRUE) # {}}

(* An evaluation that read an expired row, a row too old and a fresh row,  *)
(* and counted only the fresh one.                                         *)
C21_Witness ==
    /\ lastEval.pool # "none"
    /\ lastEval.read_ok
    /\ lastEval.current_block = MaxHead
    /\ \E r \in RowsOf(lastEval.pool) : r.expired
    /\ \E r \in RowsOf(lastEval.pool) : ~r.expired /\ r.block_number = StartBlock
    /\ \E r \in RowsOf(lastEval.pool) : ~r.expired /\ r.block_number = MaxHead
    /\ SumOver(lastEval.valid) - lastEval.valid["sentiment"] = 1

(* C33: an event signal recorded more than new_pool_blocks_threshold       *)
(* blocks before the chain head counts in no vote, whether or not the      *)
(* evaluation could fetch the current block: every event type in a vote    *)
(* has a row of the pool that is not that old.                             *)
C33_AgedSignalNeverCounts ==
    lastEval.pool # "none" =>
        \A t \in lastEval.counted \cap EventSignalTypes :
            \E r \in RowsOf(lastEval.pool) :
                /\ r.signal_type = t
                /\ \/ r.block_number = 0
                   \/ chain_head - r.block_number <= new_pool_blocks_threshold

(* C22 as stated: the score of any dict of signals is within [0, 1], and  *)
(* adding a key with a non-negative value never lowers the score.          *)
C22_ScoreBoundedMonotone ==
    /\ "base" \in score_call.computed =>
          (score_call.score >= 0 /\ score_call.score <= 1000)
    /\ "extended" \in score_call.computed =>
          (score_call.extended >= 0 /\ score_call.extended <= 1000)
    /\ (score_call.computed = {"base", "extended"} /\ score_call.value >= 0) =>
          score_call.extended >= score_call.score

(* C22, amended: the score of a dict whose values are all non-negative is  *)
(* within [0, 1]; the score of any dict is at most 1; and adding a key     *)
(* with a non-negative value never lowers the score.                       *)
C22_ScoreBoundedMonotoneNonNegative ==
    /\ "base" \in score_call.computed =>
          /\ score_call.score <= 1000
          /\ (\A t \in DOMAIN score_call.signals : score_call.signals[t] >= 0)
                => score_call.score >= 0
    /\ "extended" \in score_call.computed =>
          /\ score_call.extended <= 1000
          /\ (/\ \A t \in DOMAIN score_call.signals : score_call.signals[t] >= 0
              /\ score_call.value >= 0)
                => score_call.extended >= 0
    /\ (score_call.computed = {"base", "extended"} /\ score_call.value >= 0) =>
          score_call.extended >= score_call.score

(* A dict of non-negative values scored below 1, and the dict with one     *)
(* more key scored at the cap.                                             *)
C22_Witness ==
    /\ score_call.computed = {"base", "extended"}
    /\ \A t \in DOMAIN score_call.signals : score_call.signals[t] >= 0
    /\ score_call.value >= 0
    /\ score_call.score < 1000
    /\ score_call.extended = 1000

StopNext ==
    \/ AddAlertCallback("app")
    \/ Start
    \/ Stop
    \/ LoopTop
    \/ EvaluatePool
    \/ EndIteration
    \/ \E p \in WriterPools : RegisterPool(p)
    \/ \E p \in WriterPools, t \in EventSignalTypes : RecordSignal(p, t)

(* The event loop runs the evaluation task whenever it can run. *)
StopFairness ==
    /\ WF_vars(LoopTop)
    /\ WF_vars(EvaluatePool)
    /\ WF_vars(EndIteration)

(* C34: while the service is stopped no iteration starts (the loop enters  *)
(* its for loop only with the flag on), so at most the iteration that was  *)
(* in progress goes on; once the loop has exited no alert is generated     *)
(* until a start; and a stopped loop does exit, unless the service is      *)
(* started again or the alerts table is full.                              *)
C34_StopEndsLoop ==
    /\ [][ ~running =>
             /\ (loop # "for" /\ loop' = "for") => running'
             /\ (loop \in {"none", "exited"} /\ ~running')
                   => (db_alerts' = db_alerts /\ ~lastEval'.fired) ]_vars
    /\ ~running ~> (loop \in {"none", "exited"} \/ running \/ db_alerts = MaxAlerts)

(* The service was stopped in the middle of an iteration, and the          *)
(* iteration in progress has just evaluated a pool and fired its alert.    *)
C34_Witness ==
    /\ ~running
    /\ loop = "for"
    /\ lastEval.fired

----------------------------------------------------------------------------
(* AsyncWeb3Client. Endpoints are named by their index in rpc_urls.        *)

NumRpc == 3          \* len(rpc_urls)
MaxQueryBlock == 3   \* the block numbers a log query names are 0..MaxQueryBlock
MaxBlockRange == 2   \* the widest block range a log query is allowed; the source sets none

NoW3 == -1
Endpoints == 0..(NumRpc - 1)
HealthValues == {"up", "down", "bad"}

(* The url _connect_to_rpc tries in iteration i. *)
RpcUrlAt(idx, i) == (idx + i) % NumRpc

NewIndexNoRotation(idx, i) == i

(* The index _connect_to_rpc stores when iteration i passes the check. *)
NewIndex(idx, i) == (idx + i) % NumRpc

AttemptCountShort == NumRpc - 1

(* range(len(self.rpc_urls)) *)
AttemptCount == NumRpc

(* _connect_to_rpc from iteration i on: w is self.w3 so far, tried the       *)
(* endpoints tried so far. A provider that raises leaves self.w3 alone; a    *)
(* failed liveness check leaves self.w3 on the endpoint that failed it.      *)
RECURSIVE ConnectFrom(_, _, _, _)
ConnectFrom(i, idx, w, tried) ==
    IF i >= AttemptCount
    THEN [ran |-> TRUE, ok |-> FALSE, index |-> idx, w3 |-> w, start |-> idx,
          tried |-> tried]
    ELSE LET e == RpcUrlAt(idx, i) IN
         IF health[e] = "bad"
         THEN ConnectFrom(i + 1, idx, w, Append(tried, e))
         ELSE IF health[e] = "up"
              THEN [ran |-> TRUE, ok |-> TRUE, index |-> NewIndex(idx, i), w3 |-> e,
                    start |-> idx, tried |-> Append(tried, e)]
              ELSE ConnectFrom(i + 1, idx, e, Append(tried, e))

ConnectToRpc(idx, w) == ConnectFrom(0, idx, w, <<>>)

NotConnecting(idx, w) ==
    [ran |-> FALSE, ok |-> TRUE, index |-> idx, w3 |-> w, start |-> idx, tried |-> <<>>]

(* "if not self.w3: await self._connect_to_rpc()" *)
EnsureConnected(idx, w) == IF w = NoW3 THEN ConnectToRpc(idx, w) ELSE NotConnecting(idx, w)

NoReconnect(idx, w) ==
    [ran |-> FALSE, ok |-> TRUE, index |-> idx, w3 |-> w, start |-> idx, tried |-> <<>>]

(* get_latest_block_number's handler of a failed read: the reconnect. *)
ReconnectAfterFailure(idx, w) == ConnectToRpc(idx, w)

(* get_logs's handler of a failed query: log and re-raise. *)
LogsAfterFailure(idx, w) == NotConnecting(idx, w)

(* An RPC through the provider: it fails when the endpoint is not up, and    *)
(* may fail (ok = FALSE) when it is.                                         *)
RpcSucceeds(e, ok) == health[e] = "up" /\ ok

Probes(tried) == [k \in 1..Len(tried) |-> [kind |-> "probe", ep |-> tried[k]]]

Rpc(e) == <<[kind |-> "rpc", ep |-> e]>>

Contracts == {"v2_factory", "v3_factory"}
AbiValues == {<<>>, <<"PairCreated">>}

(* json.dumps and json.loads of an ABI, a list of dicts of strings and booleans. *)
JsonDumps(abi) == [json |-> abi]

JsonLoads(text) == text.json

NoCall ==
    [op |-> "none", idx_before |-> 0, w3_before |-> NoW3, contacts |-> <<>>,
     first_failed |-> FALSE, failed_ep |-> NoW3, reconnects |-> 0, reads |-> 0,
     result |-> "none", span |-> 0, conn |-> NotConnecting(0, NoW3),
     fresh_before |-> FALSE, cached_before |-> {}, returned |-> {}]

CInit ==
    /\ current_rpc_index = 0
    /\ w3 = NoW3
    /\ health = [e \in Endpoints |-> "up"]
    /\ lastCall = NoCall
    /\ redis = FALSE
    /\ abi_cache = [c \in Contracts |-> {}]
    /\ block_fresh = FALSE

(* initialize: the redis client, then _connect_to_rpc, whose ConnectionError *)
(* reaches the caller.                                                      *)
Initialize ==
    LET c == ConnectToRpc(current_rpc_index, w3) IN
    /\ current_rpc_index' = c.index
    /\ w3' = c.w3
    /\ lastCall' = [NoCall EXCEPT !.op = "connect", !.idx_before = current_rpc_index,
                                  !.w3_before = w3, !.contacts = Probes(c.tried),
                                  !.result = IF c.ok THEN "connected" ELSE "ConnectionError",
                                  !.conn = c]
    /\ redis' = TRUE
    /\ UNCHANGED <<health, abi_cache, block_fresh>>
    /\ UNCHANGED <<xvars, svars, mvars, rvars>>

(* get_latest_block_number *)
GetLatestBlockNumber ==
    \E ok1 \in BOOLEAN, ok2 \in BOOLEAN :
      LET c0 == EnsureConnected(current_rpc_index, w3)
          read1 == c0.ok /\ RpcSucceeds(c0.w3, ok1)
          c1 == IF c0.ok /\ ~read1 THEN ReconnectAfterFailure(c0.index, c0.w3)
                ELSE NotConnecting(c0.index, c0.w3)
          read2 == c0.ok /\ ~read1 /\ c1.ok /\ RpcSucceeds(c1.w3, ok2)
          retried == c0.ok /\ ~read1 /\ c1.ok
      IN /\ current_rpc_index' = c1.index
         /\ w3' = c1.w3
         /\ lastCall' =
              [op |-> "block_number", idx_before |-> current_rpc_index, w3_before |-> w3,
               contacts |-> Probes(c0.tried)
                            \o (IF c0.ok THEN Rpc(c0.w3) ELSE <<>>)
                            \o Probes(c1.tried)
                            \o (IF retried THEN Rpc(c1.w3) ELSE <<>>),
               first_failed |-> c0.ok /\ ~read1,
               failed_ep |-> IF c0.ok /\ ~read1 THEN c0.w3 ELSE NoW3,
               reconnects |-> IF c1.ran THEN 1 ELSE 0,
               reads |-> (IF c0.ok THEN 1 ELSE 0) + (IF retried THEN 1 ELSE 0),
               result |-> IF ~c0.ok \/ ~c1.ok THEN "ConnectionError"
                          ELSE IF read1 \/ read2 THEN "value" ELSE "error",
               span |-> 0,
               conn |-> IF c1.ran THEN c1 ELSE c0,
               fresh_before |-> block_fresh, cached_before |-> {}, returned |-> {}]
         /\ block_fresh' = (block_fresh \/ read1 \/ read2)
         /\ UNCHANGED <<health, redis, abi_cache>>
         /\ UNCHANGED <<xvars, svars, mvars, rvars>>

(* get_logs(fromBlock = from_block, toBlock = to_block) *)
GetLogs(from_block, to_block) ==
    \E ok1 \in BOOLEAN :
      LET c0 == EnsureConnected(current_rpc_index, w3)
          read1 == c0.ok /\ RpcSucceeds(c0.w3, ok1)
          c1 == IF c0.ok /\ ~read1 THEN LogsAfterFailure(c0.index, c0.w3)
                ELSE NotConnecting(c0.index, c0.w3)
      IN /\ current_rpc_index' = c1.index
         /\ w3' = c1.w3
         /\ lastCall' =
              [op |-> "get_logs", idx_before |-> current_rpc_index, w3_before |-> w3,
               contacts |-> Probes(c0.tried)
                            \o (IF c0.ok THEN Rpc(c0.w3) ELSE <<>>)
                            \o Probes(c1.tried),
               first_failed |-> c0.ok /\ ~read1,
               failed_ep |-> IF c0.ok /\ ~read1 THEN c0.w3 ELSE NoW3,
               reconnects |-> IF c1.ran THEN 1 ELSE 0,
               reads |-> IF c0.ok THEN 1 ELSE 0,
               result |-> IF ~c0.ok THEN "ConnectionError"
                          ELSE IF read1 THEN "value" ELSE "error",
               span |-> to_block - from_block + 1,
               conn |-> IF c1.ran THEN c1 ELSE c0,
               fresh_before |-> FALSE, cached_before |-> {}, returned |-> {}]
         /\ UNCHANGED <<health, redis, abi_cache, block_fresh>>
         /\ UNCHANGED <<xvars, svars, mvars, rvars>>

(* An endpoint goes up or down. *)
HealthChanges(e, h) ==
    /\ health[e] # h
    /\ health' = [health EXCEPT ![e] = h]
    /\ lastCall' = NoCall
    /\ UNCHANGED <<current_rpc_index, w3, redis, abi_cache, block_fresh>>
    /\ UNCHANGED <<xvars, svars, mvars, rvars>>

(* cache_abi: setex of the dumped ABI, or nothing without a redis client. *)
CacheAbi(c, abi) ==
    /\ abi_cache' = IF redis THEN [abi_cache EXCEPT ![c] = {JsonDumps(abi)}]
                    ELSE abi_cache
    /\ lastCall' = [NoCall EXCEPT !.op = "cache_abi", !.cached_before = abi_cache[c]]
    /\ UNCHANGED <<current_rpc_index, w3, health, redis, block_fresh>>
    /\ UNCHANGED <<xvars, svars, mvars, rvars>>

(* get_cached_abi: the loaded entry, or None (the empty set here) without a *)
(* redis client or an entry. It fetches nothing.                            *)
GetCachedAbi(c) ==
    /\ lastCall' = [NoCall EXCEPT
                      !.op = "get_cached_abi",
                      !.cached_before = IF redis THEN abi_cache[c] ELSE {},
                      !.returned = IF redis THEN {JsonLoads(t) : t \in abi_cache[c]}
                                   ELSE {},
                      !.result = IF redis /\ abi_cache[c] # {} THEN "value" ELSE "None"]
    /\ UNCHANGED <<current_rpc_index, w3, health, redis, abi_cache, block_fresh>>
    /\ UNCHANGED <<xvars, svars, mvars, rvars>>

(* The 24 hours of a cached ABI elapse: redis drops the entry. *)
AbiExpires(c) ==
    /\ abi_cache[c] # {}
    /\ abi_cache' = [abi_cache EXCEPT ![c] = {}]
    /\ lastCall' = NoCall
    /\ UNCHANGED <<current_rpc_index, w3, health, redis, block_fresh>>
    /\ UNCHANGED <<xvars, svars, mvars, rvars>>

(* The time to live of a block number elapses. *)
BlockTtlElapses ==
    /\ block_fresh
    /\ block_fresh' = FALSE
    /\ lastCall' = NoCall
    /\ UNCHANGED <<current_rpc_index, w3, health, redis, abi_cache>>
    /\ UNCHANGED <<xvars, svars, mvars, rvars>>

CNext ==
    \/ Initialize
    \/ GetLatestBlockNumber
    \/ \E from_block \in 0..MaxQueryBlock :
         \E to_block \in from_block..MaxQueryBlock : GetLogs(from_block, to_block)
    \/ \E e \in Endpoints, h \in HealthValues : HealthChanges(e, h)
    \/ \E c \in Contracts, abi \in AbiValues : CacheAbi(c, abi)
    \/ \E c \in Contracts : GetCachedAbi(c)
    \/ \E c \in Contracts : AbiExpires(c)
    \/ BlockTtlElapses

----------------------------------------------------------------------------
(* Claims about the client, checked under SpecClient. lastCall describes   *)
(* the state right after a client operation: a change of health resets it. *)

(* A connect that fails leaves the provider on the last endpoint it probed *)
(* and the index where it was; the state C6 is about is the one a connect  *)
(* that succeeded leaves, with the provider on the current endpoint.       *)

(* C6: a connect that succeeds leaves the provider and the current index   *)
(* on the first endpoint of the rotation that is up, and a call made while *)
(* the provider is on the current endpoint sends its first request to that *)
(* endpoint, without probing or calling any other endpoint first.          *)
C6_FailoverDeterministic ==
    /\ (lastCall.conn.ran /\ lastCall.conn.ok) =>
          /\ w3 = current_rpc_index
          /\ health[current_rpc_index] = "up"
          /\ \E k \in 0..(NumRpc - 1) :
                /\ current_rpc_index = (lastCall.conn.start + k) % NumRpc
                /\ \A j \in 0..(k - 1) :
                      health[(lastCall.conn.start + j) % NumRpc] # "up"
    /\ ( /\ lastCall.op \in {"block_number", "get_logs"}
         /\ lastCall.w3_before # NoW3
         /\ lastCall.w3_before = lastCall.idx_before )
        => /\ lastCall.contacts # <<>>
           /\ lastCall.contacts[1] = [kind |-> "rpc", ep |-> lastCall.idx_before]

(* A block-number read answered by B, the current endpoint, while A is down. *)
C6_Witness ==
    /\ lastCall.op = "block_number"
    /\ lastCall.idx_before = 1
    /\ lastCall.w3_before = 1
    /\ health[0] = "down"
    /\ health[1] = "up"
    /\ lastCall.contacts = <<[kind |-> "rpc", ep |-> 1]>>
    /\ lastCall.result = "value"
    /\ current_rpc_index = 1

(* C7: a connect tries the endpoints in rotation from the index it started *)
(* at, every endpoint before the last one tried failed, it succeeds exactly *)
(* when the last one tried is up, and it fails with ConnectionError only    *)
(* after NumRpc endpoints, each once.                                       *)
C7_RoundRobinConnect ==
    lastCall.conn.ran =>
      LET c == lastCall.conn IN
      /\ Len(c.tried) \in 1..NumRpc
      /\ lastCall.op = "connect" => c.start = lastCall.idx_before
      /\ \A k \in 1..Len(c.tried) : c.tried[k] = (c.start + k - 1) % NumRpc
      /\ \A k \in 1..(Len(c.tried) - 1) : health[c.tried[k]] # "up"
      /\ c.ok <=> health[c.tried[Len(c.tried)]] = "up"
      /\ ~c.ok => /\ Len(c.tried) = NumRpc
                  /\ lastCall.result = "ConnectionError"

(* A connect from index 1 that fails after the whole rotation. *)
C7_Witness ==
    /\ lastCall.op = "connect"
    /\ lastCall.idx_before = 1
    /\ ~lastCall.conn.ok
    /\ Len(lastCall.conn.tried) = NumRpc
    /\ lastCall.conn.tried[NumRpc] = 0
    /\ lastCall.result = "ConnectionError"

(* C8, as stated: a failed block-number read is followed by exactly one    *)
(* reconnect and exactly one retry of the read.                            *)
C8_OneReconnectAndOneRetry ==
    (lastCall.op = "block_number" /\ lastCall.first_failed)
        => (lastCall.reconnects = 1 /\ lastCall.reads = 2)

(* C8, amended: a failed block-number read is followed by exactly one      *)
(* reconnect; the read is retried once when the reconnect succeeds, and the *)
(* retry's outcome is returned; when the reconnect fails nothing is retried *)
(* and ConnectionError is returned. A read that succeeds does neither.      *)
C8_OneReconnectRetryIfConnected ==
    lastCall.op = "block_number" =>
      /\ lastCall.first_failed =>
            /\ lastCall.reconnects = 1
            /\ lastCall.conn.ran
            /\ lastCall.reads = (IF lastCall.conn.ok THEN 2 ELSE 1)
            /\ lastCall.conn.ok => lastCall.result \in {"value", "error"}
            /\ ~lastCall.conn.ok => lastCall.result = "ConnectionError"
      /\ ~lastCall.first_failed =>
            /\ lastCall.reconnects = 0
            /\ lastCall.reads <= 1

(* A read that failed, one reconnect, one retry that failed as well. *)
C8_Witness ==
    /\ lastCall.op = "block_number"
    /\ lastCall.first_failed
    /\ lastCall.reconnects = 1
    /\ lastCall.reads = 2
    /\ lastCall.result = "error"

(* C9: a failed get_logs query is followed by one reconnect before the     *)
(* error reaches the caller.                                               *)
C9_LogsFailover ==
    (lastCall.op = "get_logs" /\ lastCall.first_failed) => lastCall.reconnects = 1

(* C10: a get_logs query over more than MaxBlockRange blocks returns       *)
(* RangeTooLarge and issues no RPC.                                        *)
C10_RangeTooLarge ==
    (lastCall.op = "get_logs" /\ lastCall.span > MaxBlockRange)
        => (lastCall.result = "RangeTooLarge" /\ lastCall.reads = 0)

(* C11: an ABI read that finds an entry returns the cached ABI as it was   *)
(* stored, with no RPC; and a block-number read made while an earlier read *)
(* is within its time to live issues no RPC.                               *)
C11_CacheRoundTrip ==
    /\ (lastCall.op = "get_cached_abi" /\ lastCall.cached_before # {})
          => /\ lastCall.returned = {t.json : t \in lastCall.cached_before}
             /\ lastCall.reads = 0
    /\ (lastCall.op = "block_number" /\ lastCall.fresh_before)
          => /\ lastCall.reads = 0
             /\ lastCall.result = "value"

(* C20: the reconnect that follows a failed read does not start with the   *)
(* endpoint whose read just failed.                                        *)
C20_FailoverAdvances ==
    (lastCall.op = "block_number" /\ lastCall.first_failed /\ lastCall.conn.ran)
        => lastCall.conn.tried[1] # lastCall.failed_ep

(* C32: after a _connect_to_rpc has returned or raised, current_rpc_index  *)
(* is an index of rpc_urls and w3, when set, is the connection to the      *)
(* endpoint at that index; a connect in which every endpoint failed leaves *)
(* the index and w3 as they were.                                          *)
C32_ConnectionInvariant ==
    lastCall.conn.ran =>
        /\ current_rpc_index \in Endpoints
        /\ w3 # NoW3 => w3 = current_rpc_index
        /\ ( /\ ~lastCall.conn.ok
             /\ lastCall.op = "connect" \/ lastCall.w3_before # NoW3 )
            => /\ current_rpc_index = lastCall.idx_before
               /\ w3 = lastCall.w3_before

----------------------------------------------------------------------------
(* UniswapMonitor: the two factory polling loops and their handlers.       *)

MaxEmitted == 2      \* on_event calls per pool
MStartBlock == 100   \* the head when the model starts
MBlockJump == 120    \* blocks mined between two observations of the head
MMaxHead == 220      \* the head stops advancing here

(* "from_block = latest_block - 100" *)
LookBack == 100

MPools == {"0xaa", "0xbb"}
Versions == {"v2", "v3"}

(* client.get_logs(fromBlock = from_block, toBlock = "latest") for one factory. *)
LogsInRange(ver, from_block) ==
    {l \in factory_logs : l.version = ver /\ l.block >= from_block /\ l.block <= m_head}

(* The logs of a query come in chain order. *)
InChainOrder(S) ==
    {s \in Orderings(S) : \A i, j \in 1..Len(s) : i < j => s[i].block <= s[j].block}

NoHandled == [pool |-> "none", already |-> FALSE, registered |-> FALSE, emitted |-> FALSE,
              dropped |-> "none"]

DropBatch(queue) == <<>>

(* "except Exception: logger.error("handle_v2_pair_error", ...)": the      *)
(* handler returns and the for loop takes the next log.                    *)
AfterDecodeError(queue) == Tail(queue)

NoIter == [loop |-> "none", raised |-> FALSE, from_block |-> 0, polled_before |-> 0,
           item |-> "none", left_before |-> <<>>]

AbortBatch(queue) == <<>>

(* "except Exception: logger.warning("pool_monitor_error", ...)": the for  *)
(* loop takes the next pool.                                               *)
AfterPoolError(queue) == Tail(queue)

LoopDies == "exited"

(* "except Exception: logger.error(...); await asyncio.sleep(60)": the loop *)
(* is back at its while test.                                               *)
AfterPollError == "top"

LoopPosition(l) == IF l = "pools" THEN activity ELSE poll[l]

MInit ==
    /\ m_running = FALSE
    /\ monitored_pools = {}
    /\ poll = [v \in Versions |-> "idle"]
    /\ events = [v \in Versions |-> <<>>]
    /\ factory_logs = {}
    /\ m_head = MStartBlock
    /\ emitted = [p \in MPools |-> 0]
    /\ lastHandled = NoHandled
    /\ activity = "idle"
    /\ pools_queue = <<>>
    /\ delivered = {}
    /\ aborted = {}
    /\ lastIter = NoIter
    /\ polled = [v \in Versions |-> 0]

(* start: sets the flag and runs the three polling loops. *)
MonitorStart ==
    /\ ~m_running
    /\ \A v \in Versions : poll[v] \in {"idle", "exited"}
    /\ activity \in {"idle", "exited"}
    /\ m_running' = TRUE
    /\ poll' = [v \in Versions |-> "top"]
    /\ activity' = "top"
    /\ lastHandled' = NoHandled
    /\ lastIter' = NoIter
    /\ UNCHANGED <<monitored_pools, events, factory_logs, m_head, emitted, pools_queue,
                   delivered, aborted,
                   polled>>
    /\ UNCHANGED <<xvars, svars, cvars, rvars>>

(* stop *)
MonitorStop ==
    /\ m_running
    /\ m_running' = FALSE
    /\ lastHandled' = NoHandled
    /\ lastIter' = NoIter
    /\ UNCHANGED <<monitored_pools, poll, events, factory_logs, m_head, emitted, activity,
                   pools_queue, delivered, aborted,
                   polled>>
    /\ UNCHANGED <<xvars, svars, cvars, rvars>>

(* _monitor_v2_pairs / _monitor_v3_pairs: the while test, the block number *)
(* and the log query. When the client raises, the loop sleeps and tests     *)
(* again.                                                                   *)
PollFactory(ver) ==
    /\ poll[ver] = "top"
    /\ IF ~m_running
       THEN /\ poll' = [poll EXCEPT ![ver] = "exited"]
            /\ lastIter' = NoIter
            /\ UNCHANGED <<events, polled>>
       ELSE \E client_ok \in BOOLEAN :
              /\ lastIter' = [NoIter EXCEPT !.loop = ver, !.raised = ~client_ok,
                                            !.from_block = m_head - LookBack,
                                            !.polled_before = polled[ver]]
              /\ IF client_ok
                 THEN /\ \E order \in InChainOrder(LogsInRange(ver, m_head - LookBack)) :
                            events' = [events EXCEPT ![ver] = order]
                      /\ poll' = [poll EXCEPT ![ver] = "for"]
                      /\ polled' = [polled EXCEPT ![ver] = m_head]
                 ELSE /\ poll' = [poll EXCEPT ![ver] = AfterPollError]
                      /\ UNCHANGED <<events, polled>>
    /\ lastHandled' = NoHandled
    /\ UNCHANGED <<m_running, monitored_pools, factory_logs, m_head, emitted, activity,
                   pools_queue, delivered, aborted>>
    /\ UNCHANGED <<xvars, svars, cvars, rvars>>

(* _handle_v2_pair_created / _handle_v3_pool_created for the next log of   *)
(* the for loop: decode, add to monitored_pools, call on_event, which the  *)
(* handler awaits. A log that does not decode is logged and dropped.       *)
HandleCreated(ver) ==
    /\ poll[ver] = "for"
    /\ events[ver] # <<>>
    /\ LET event == Head(events[ver]) IN
       /\ emitted[event.pool] < MaxEmitted
       /\ IF event.decodable
          THEN /\ monitored_pools' = monitored_pools \cup {event.pool}
               /\ emitted' = [emitted EXCEPT ![event.pool] = @ + 1]
               /\ lastHandled' = [NoHandled EXCEPT
                                     !.pool = event.pool,
                                     !.already = event.pool \in monitored_pools,
                                     !.registered = TRUE,
                                     !.emitted = TRUE]
               /\ poll' = [poll EXCEPT ![ver] = "on_event"]
               /\ UNCHANGED events
          ELSE /\ UNCHANGED <<monitored_pools, emitted, poll>>
               /\ lastHandled' = [NoHandled EXCEPT !.dropped = event.pool]
               /\ events' = [events EXCEPT ![ver] = AfterDecodeError(@)]
    /\ lastIter' = NoIter
    /\ UNCHANGED <<m_running, factory_logs, m_head, activity, pools_queue, delivered,
                   aborted, polled>>
    /\ UNCHANGED <<xvars, svars, cvars, rvars>>

HandleV2PairCreated == HandleCreated("v2")

HandleV3PoolCreated == HandleCreated("v3")

(* on_event returns or raises: the handler logs either way and the for     *)
(* loop takes the next log.                                                *)
OnEventReturns(ver) ==
    /\ poll[ver] = "on_event"
    /\ \E ok \in BOOLEAN :
         delivered' = IF ok THEN delivered \cup {Head(events[ver]).pool} ELSE delivered
    /\ events' = [events EXCEPT ![ver] = Tail(@)]
    /\ poll' = [poll EXCEPT ![ver] = "for"]
    /\ lastHandled' = NoHandled
    /\ lastIter' = NoIter
    /\ UNCHANGED <<m_running, monitored_pools, factory_logs, m_head, emitted, activity,
                   pools_queue, aborted,
                   polled>>
    /\ UNCHANGED <<xvars, svars, cvars, rvars>>

(* The end of the for loop: asyncio.sleep(30), then the while test again. *)
EndPoll(ver) ==
    /\ poll[ver] = "for"
    /\ events[ver] = <<>>
    /\ poll' = [poll EXCEPT ![ver] = "top"]
    /\ lastHandled' = NoHandled
    /\ lastIter' = NoIter
    /\ UNCHANGED <<m_running, monitored_pools, events, factory_logs, m_head, emitted,
                   activity, pools_queue, delivered, aborted,
                   polled>>
    /\ UNCHANGED <<xvars, svars, cvars, rvars>>

(* _monitor_existing_pools: the while test, the wait for a first pool, the *)
(* block number, and the list of the pools to query.                       *)
PollPools ==
    /\ activity = "top"
    /\ IF ~m_running
       THEN /\ activity' = "exited"
            /\ lastIter' = NoIter
            /\ UNCHANGED pools_queue
       ELSE IF monitored_pools = {}
            THEN /\ lastIter' = [NoIter EXCEPT !.loop = "pools"]
                 /\ UNCHANGED <<activity, pools_queue>>
            ELSE \E client_ok \in BOOLEAN :
                   /\ lastIter' = [NoIter EXCEPT !.loop = "pools", !.raised = ~client_ok]
                   /\ IF client_ok
                      THEN /\ \E order \in Orderings(monitored_pools) :
                                 pools_queue' = order
                           /\ activity' = "for"
                      ELSE /\ activity' = AfterPollError
                           /\ UNCHANGED pools_queue
    /\ lastHandled' = NoHandled
    /\ UNCHANGED <<m_running, monitored_pools, poll, events, factory_logs, m_head, emitted,
                   delivered, aborted,
                   polled>>
    /\ UNCHANGED <<xvars, svars, cvars, rvars>>

(* The body of its for loop for the next pool: the Mint and Swap queries   *)
(* and their handlers, which call on_event and change nothing in the       *)
(* monitor. An error is logged and the loop takes the next pool.           *)
PoolActivity ==
    /\ activity = "for"
    /\ pools_queue # <<>>
    /\ \E client_ok \in BOOLEAN :
         /\ lastIter' = [NoIter EXCEPT !.loop = "pools", !.raised = ~client_ok,
                                       !.item = Head(pools_queue),
                                       !.left_before = pools_queue]
         /\ pools_queue' = IF client_ok THEN Tail(pools_queue)
                           ELSE AfterPoolError(pools_queue)
    /\ lastHandled' = NoHandled
    /\ UNCHANGED <<m_running, monitored_pools, poll, events, factory_logs, m_head, emitted,
                   activity, delivered, aborted,
                   polled>>
    /\ UNCHANGED <<xvars, svars, cvars, rvars>>

(* The end of its for loop: asyncio.sleep(30), then the while test again. *)
EndPoolPoll ==
    /\ activity = "for"
    /\ pools_queue = <<>>
    /\ activity' = "top"
    /\ lastHandled' = NoHandled
    /\ lastIter' = NoIter
    /\ UNCHANGED <<m_running, monitored_pools, poll, events, factory_logs, m_head, emitted,
                   pools_queue, delivered, aborted,
                   polled>>
    /\ UNCHANGED <<xvars, svars, cvars, rvars>>

(* Snip727App.shutdown: the monitor's task is cancelled where it waits (a  *)
(* sleep or a client call at the top of a loop, a query of the pool loop,  *)
(* or on_event), then stop() clears the flag.                              *)
Shutdown ==
    /\ m_running
    /\ \A v \in Versions : poll[v] \in {"top", "on_event"}
    /\ activity \in {"top", "for"}
    /\ poll' = [v \in Versions |-> "cancelled"]
    /\ activity' = "cancelled"
    /\ aborted' = aborted \cup {v \in Versions : poll[v] = "on_event"}
                          \cup (IF activity = "for" THEN {"pools"} ELSE {})
    /\ m_running' = FALSE
    /\ lastHandled' = NoHandled
    /\ lastIter' = NoIter
    /\ UNCHANGED <<monitored_pools, events, factory_logs, m_head, emitted, pools_queue,
                   delivered,
                   polled>>
    /\ UNCHANGED <<xvars, svars, cvars, rvars>>

(* A factory creates a pool: its creation log is on the chain from now on. *)
CreatePool(p, ver, decodable) ==
    /\ \A l \in factory_logs : l.pool # p
    /\ factory_logs' = factory_logs \cup
          {[pool |-> p, version |-> ver, block |-> m_head, decodable |-> decodable]}
    /\ lastHandled' = NoHandled
    /\ lastIter' = NoIter
    /\ UNCHANGED <<m_running, monitored_pools, poll, events, m_head, emitted, activity,
                   pools_queue, delivered, aborted,
                   polled>>
    /\ UNCHANGED <<xvars, svars, cvars, rvars>>

(* Blocks are mined. *)
MineBlocks ==
    /\ m_head + MBlockJump <= MMaxHead
    /\ m_head' = m_head + MBlockJump
    /\ lastHandled' = NoHandled
    /\ lastIter' = NoIter
    /\ UNCHANGED <<m_running, monitored_pools, poll, events, factory_logs, emitted,
                   activity, pools_queue, delivered, aborted,
                   polled>>
    /\ UNCHANGED <<xvars, svars, cvars, rvars>>

MNext ==
    \/ MonitorStart
    \/ MonitorStop
    \/ \E ver \in Versions : PollFactory(ver)
    \/ HandleV2PairCreated
    \/ HandleV3PoolCreated
    \/ \E ver \in Versions : OnEventReturns(ver)
    \/ \E ver \in Versions : EndPoll(ver)
    \/ PollPools
    \/ PoolActivity
    \/ EndPoolPoll
    \/ Shutdown
    \/ \E p \in MPools, ver \in Versions, decodable \in BOOLEAN : CreatePool(p, ver, decodable)
    \/ MineBlocks

----------------------------------------------------------------------------
(* Claims about the monitor, checked under SpecMonitor. lastHandled        *)
(* describes the state right after a creation handler decoded a log.       *)

(* C5: handling a creation log for a pool that is already in               *)
(* monitored_pools keeps the pool registered and calls on_event for it no  *)
(* second time.                                                            *)
C5_IdempotentRegistration ==
    /\ lastHandled.already => (lastHandled.registered /\ ~lastHandled.emitted)
    /\ \A p \in MPools : emitted[p] <= 1

(* C17: a loop whose client call raised is still in its loop, at the while *)
(* test or at the next pool; an evaluation that met an error leaves the    *)
(* strategy loop in its for loop; and a loop is past its while only when   *)
(* its running flag is off.                                                *)
C17_LoopsSurviveErrors ==
    /\ lastIter.raised => LoopPosition(lastIter.loop) \in {"top", "for"}
    /\ \A v \in Versions : poll[v] = "exited" => ~m_running
    /\ activity = "exited" => ~m_running
    /\ (lastEval.pool # "none" /\ ~lastEval.clean) => loop = "for"
    /\ loop = "exited" => ~running

(* The v2 factory loop whose client call just raised, back at its test. *)
C17_Witness ==
    /\ lastIter.loop = "v2"
    /\ lastIter.raised
    /\ poll["v2"] = "top"
    /\ m_running

(* C24: a factory loop's successive queries leave no gap: a query starts  *)
(* no later than the block after the head the loop's previous successful   *)
(* query reached, so that every block at or below the head is in some      *)
(* query's range.                                                          *)
C24_NoGapBetweenPolls ==
    (lastIter.loop \in Versions /\ ~lastIter.raised /\ lastIter.polled_before # 0) =>
        lastIter.from_block <= lastIter.polled_before + 1

(* C25: a creation log is delivered to on_event at most once, over any    *)
(* number of polls.                                                        *)
C25_LogDeliveredOnce ==
    \A p \in MPools : emitted[p] <= 1

(* C26: an error while one pool is processed does not abort the batch:    *)
(* when the activity loop's queries for a pool raise, or an evaluation of  *)
(* the strategy loop meets an error, the loop is still in its for loop and *)
(* what is left of the batch is every pool that came after the failed one. *)
C26_PerItemIsolation ==
    /\ (lastIter.loop = "pools" /\ lastIter.item # "none" /\ lastIter.raised) =>
          /\ activity = "for"
          /\ pools_queue = Tail(lastIter.left_before)
    /\ (lastEval.pool # "none" /\ ~lastEval.clean) =>
          /\ loop = "for"
          /\ pools_to_check = Tail(lastEval.left_before)

(* The queries for the first of two pools raised; the second is next. *)
C26_Witness ==
    /\ lastIter.loop = "pools"
    /\ lastIter.raised
    /\ Len(lastIter.left_before) = 2
    /\ activity = "for"
    /\ pools_queue = <<lastIter.left_before[2]>>

(* C27: the step that handles a log which does not decode changes neither *)
(* the registry nor the calls of on_event, leaves the polling loop in its  *)
(* for loop, and leaves every other log of the batch to be handled.        *)
C27_UndecodableDropped ==
    [][\A ver \in Versions :
          (/\ poll[ver] = "for"
           /\ events[ver] # <<>>
           /\ ~Head(events[ver]).decodable
           /\ events'[ver] # events[ver])
          => /\ monitored_pools' = monitored_pools
             /\ emitted' = emitted
             /\ delivered' = delivered
             /\ poll'[ver] = "for"
             /\ events'[ver] = Tail(events[ver])]_vars

(* A log that did not decode was dropped, and the log after it in the     *)
(* batch is the next to be handled.                                        *)
C27_Witness ==
    /\ lastHandled.dropped # "none"
    /\ lastHandled.dropped \notin monitored_pools
    /\ \E ver \in Versions :
          /\ poll[ver] = "for"
          /\ events[ver] # <<>>
          /\ Head(events[ver]).pool # lastHandled.dropped

(* C18: no cancellation stops a loop in the middle of an iteration, and    *)
(* once the factory loops have ended every pool in monitored_pools has had *)
(* its creation event handled by on_event.                                 *)
C18_LoopsFinishIteration ==
    /\ aborted = {}
    /\ (\A v \in Versions : poll[v] \in {"exited", "cancelled"})
          => \A p \in monitored_pools : p \in delivered

----------------------------------------------------------------------------
(* The pool activity handlers (_handle_mint_event, _handle_swap_event) as  *)
(* functions of one log. Amounts are in whole tokens (units of 1e18), so   *)
(* the division by 1e18 is exact.                                          *)
MaxAmount == 2            \* the largest amount a log carries
min_liquidity_usd == 2    \* the liquidity threshold the Mint comparison names
whale_threshold_usd == 2  \* the whale threshold the Swap comparison names

(* The fields of the Settings class the monitor is constructed with. *)
SettingsFields ==
    {"telegram_token", "telegram_chat_id", "database_url", "redis_url",
     "web3_provider_url", "chain_id", "base_rpc_urls", "uniswap_v2_factory",
     "uniswap_v3_factory", "liquidity_spike_threshold", "whale_buy_threshold",
     "new_pool_blocks_threshold", "sentiment_threshold", "telegram_channels",
     "nitter_feeds", "strategy_signals_required", "log_level"}

(* self.settings.<name> raises AttributeError for a name that is no field. *)
HasSetting(name) == name \in SettingsFields

Amounts == 0..MaxAmount

MaxOf(a, b) == IF a >= b THEN a ELSE b

(* A Mint log (amount0, amount1) or a Swap log (amount0In, amount1In,      *)
(* amount0Out, amount1Out), one that process_log decodes or not.           *)
HandlerInit ==
    /\ score_call = NoScoreCall
    /\ engine_signals = <<>>
    /\ lastProcessed = NoProcessed
    /\ app = NoApp
    /\ \E decodable \in BOOLEAN :
          \/ \E amounts \in [1..2 -> Amounts] :
                handler_call = [NoHandlerCall EXCEPT !.handler = "mint",
                                                     !.decodable = decodable,
                                                     !.amounts = amounts]
          \/ \E amounts \in [1..4 -> Amounts] :
                handler_call = [NoHandlerCall EXCEPT !.handler = "swap",
                                                     !.decodable = decodable,
                                                     !.amounts = amounts]

(* _handle_mint_event: everything is inside the try, so a log that does    *)
(* not decode and a settings lookup that raises both end in the except     *)
(* clause, with nothing delivered.                                         *)
HandleMintEvent ==
    /\ handler_call.handler = "mint"
    /\ ~handler_call.returned
    /\ LET estimated_usd == handler_call.amounts[1] + handler_call.amounts[2]
           raised == ~handler_call.decodable \/ ~HasSetting("min_liquidity_usd")
       IN  handler_call' =
              [handler_call EXCEPT
                 !.returned = TRUE,
                 !.raised = raised,
                 !.event = IF ~raised /\ estimated_usd >= min_liquidity_usd
                           THEN "liquidity_spike" ELSE "none"]
    /\ UNCHANGED <<score_call, engine_signals, lastProcessed, app>>
    /\ UNCHANGED <<svars, rvars, cvars, mvars>>

(* _handle_swap_event *)
HandleSwapEvent ==
    /\ handler_call.handler = "swap"
    /\ ~handler_call.returned
    /\ LET total_in == handler_call.amounts[1] + handler_call.amounts[2]
           total_out == handler_call.amounts[3] + handler_call.amounts[4]
           swap_value == MaxOf(total_in, total_out)
           raised == ~handler_call.decodable \/ ~HasSetting("whale_threshold_usd")
       IN  handler_call' =
              [handler_call EXCEPT
                 !.returned = TRUE,
                 !.raised = raised,
                 !.event = IF ~raised /\ swap_value >= whale_threshold_usd
                           THEN "whale_buy" ELSE "none"]
    /\ UNCHANGED <<score_call, engine_signals, lastProcessed, app>>
    /\ UNCHANGED <<svars, rvars, cvars, mvars>>

HandlerNext == HandleMintEvent \/ HandleSwapEvent

(* C28: a Mint log yields a liquidity_spike event exactly when its         *)
(* estimated value exceeds the liquidity threshold, and a Swap log yields  *)
(* a whale_buy event exactly when the larger of its total-in and total-out *)
(* exceeds the whale threshold; otherwise nothing is delivered.            *)
C28_ActivityClassified ==
    handler_call.returned =>
        /\ handler_call.handler = "mint" =>
              /\ handler_call.event \in {"none", "liquidity_spike"}
              /\ handler_call.event = "liquidity_spike"
                    <=> /\ handler_call.decodable
                        /\ handler_call.amounts[1] + handler_call.amounts[2]
                              > min_liquidity_usd
        /\ handler_call.handler = "swap" =>
              /\ handler_call.event \in {"none", "whale_buy"}
              /\ handler_call.event = "whale_buy"
                    <=> /\ handler_call.decodable
                        /\ MaxOf(handler_call.amounts[1] + handler_call.amounts[2],
                                 handler_call.amounts[3] + handler_call.amounts[4])
                              > whale_threshold_usd

----------------------------------------------------------------------------
(* Snip727App._run_async, with the database and the sentiment analyzer     *)
(* answering: initialize, start_services, the wait for shutdown. The       *)
(* strategy service's loop runs inside initialize's await.                 *)

AppTasks == {"monitor", "sentiment"}

(* initialize up to its await of strategy_service.start(): start sets the  *)
(* flag and awaits the task of _continuous_evaluation.                     *)
AppInitialize ==
    /\ app.position = "new"
    /\ app' = [app EXCEPT !.position = "start"]
    /\ running' = TRUE
    /\ loop' = "top"
    /\ lastEval' = NoEval
    /\ UNCHANGED <<score_call, engine_signals, lastProcessed, handler_call>>
    /\ UNCHANGED <<alert_callbacks, pools_to_check, strategy_signals, recent_activity,
                   db_pools, sentiment, db_alerts, chain_head, sinceAlert>>
    /\ UNCHANGED <<rvars, cvars, mvars>>

(* The awaited task has ended: start returns, and initialize registers the *)
(* application's callback and returns.                                     *)
StartReturns ==
    /\ app.position = "start"
    /\ loop = "exited"
    /\ app' = [app EXCEPT !.position = "initialized"]
    /\ alert_callbacks' = Append(alert_callbacks, "app")
    /\ lastEval' = NoEval
    /\ UNCHANGED <<score_call, engine_signals, lastProcessed, handler_call>>
    /\ UNCHANGED <<running, loop, pools_to_check, strategy_signals, recent_activity,
                   db_pools, sentiment, db_alerts, chain_head, sinceAlert>>
    /\ UNCHANGED <<rvars, cvars, mvars>>

(* start_services *)
StartServices ==
    /\ app.position = "initialized"
    /\ app' = [app EXCEPT !.position = "started", !.running = TRUE,
                          !.tasks = @ \cup AppTasks]
    /\ lastEval' = NoEval
    /\ UNCHANGED <<score_call, engine_signals, lastProcessed, handler_call>>
    /\ UNCHANGED <<running, alert_callbacks, loop, pools_to_check, strategy_signals,
                   recent_activity, db_pools, sentiment, db_alerts, chain_head,
                   sinceAlert>>
    /\ UNCHANGED <<rvars, cvars, mvars>>

(* SIGINT or SIGTERM: the handler's task runs shutdown, which clears the   *)
(* application's flag, cancels the tasks where they wait (the monitor's    *)
(* loops with them) and stops the monitor and the strategy service.        *)
Signal ==
    /\ app.position \in {"start", "initialized", "started"}
    /\ running \/ app.running
    /\ \A v \in Versions : poll[v] # "for"
    /\ app' = [app EXCEPT !.running = FALSE]
    /\ running' = FALSE
    /\ poll' = [v \in Versions |-> IF poll[v] \in {"top", "on_event"}
                                    THEN "cancelled" ELSE poll[v]]
    /\ activity' = IF activity \in {"top", "for"} THEN "cancelled" ELSE activity
    /\ aborted' = aborted \cup {v \in Versions : poll[v] = "on_event"}
                          \cup (IF activity = "for" THEN {"pools"} ELSE {})
    /\ m_running' = FALSE
    /\ lastEval' = NoEval
    /\ lastHandled' = NoHandled
    /\ lastIter' = NoIter
    /\ UNCHANGED <<score_call, engine_signals, lastProcessed, handler_call>>
    /\ UNCHANGED <<alert_callbacks, loop, pools_to_check, strategy_signals,
                   recent_activity, db_pools, sentiment, db_alerts, chain_head,
                   sinceAlert>>
    /\ UNCHANGED <<monitored_pools, events, factory_logs, m_head, emitted,
                   pools_queue, delivered, polled>>
    /\ UNCHANGED <<rvars, cvars>>

(* The wait loop sees the flag cleared; the finally clause runs shutdown. *)
AppExit ==
    /\ app.position = "started"
    /\ ~app.running
    /\ app' = [app EXCEPT !.position = "done"]
    /\ running' = FALSE
    /\ m_running' = FALSE
    /\ lastEval' = NoEval
    /\ UNCHANGED <<score_call, engine_signals, lastProcessed, handler_call>>
    /\ UNCHANGED <<alert_callbacks, loop, pools_to_check, strategy_signals,
                   recent_activity, db_pools, sentiment, db_alerts, chain_head,
                   sinceAlert>>
    /\ UNCHANGED <<monitored_pools, poll, events, factory_logs, m_head, emitted,
                   lastHandled, activity, pools_queue, delivered, aborted, lastIter,
                   polled>>
    /\ UNCHANGED <<rvars, cvars>>

(* The application with the strategy service's loop, and writers that give *)
(* the loop pools to evaluate.                                             *)
AppNext ==
    \/ AppInitialize
    \/ LoopTop
    \/ EvaluatePool
    \/ EndIteration
    \/ StartReturns
    \/ StartServices
    \/ Signal
    \/ AppExit
    \/ \E p \in WriterPools : RegisterPool(p)
    \/ \E p \in WriterPools, t \in {"new_pool", "whale_buy"} : RecordSignal(p, t)

(* The event loop runs every task that can run; signals and the writers of *)
(* the tables are under no obligation.                                     *)
AppFairness ==
    /\ WF_vars(AppInitialize)
    /\ WF_vars(LoopTop)
    /\ WF_vars(EvaluatePool)
    /\ WF_vars(EndIteration)
    /\ WF_vars(StartReturns)
    /\ WF_vars(StartServices)
    /\ WF_vars(AppExit)

(* C30: initialize eventually returns with the strategy service still      *)
(* running, and start_services then creates the monitor and sentiment      *)
(* tasks.                                                                  *)
C30_StartupProgress ==
    <>( /\ app.position = "started"
        /\ AppTasks \subseteq app.tasks
        /\ running )

(* _run_monitor, the task start_services creates: while the application's *)
(* flag is on it calls uniswap_monitor.start(), again whenever a start has *)
(* returned.                                                               *)
RunMonitor ==
    /\ app.position = "started"
    /\ app.running
    /\ "monitor" \in app.tasks
    /\ MonitorStart

(* The application supervising the monitor, on a chain without creation    *)
(* logs (no pool is monitored, so the pool loop's for loop has no body to  *)
(* run); stop() is the monitor's public method.                            *)
SuperviseNext ==
    \/ AppInitialize
    \/ LoopTop
    \/ EndIteration
    \/ StartReturns
    \/ StartServices
    \/ Signal
    \/ AppExit
    \/ RunMonitor
    \/ MonitorStop
    \/ \E ver \in Versions : PollFactory(ver)
    \/ \E ver \in Versions : EndPoll(ver)
    \/ PollPools

(* C35: once stop() has been called and a loop of the monitor has ended,   *)
(* nothing but an operator's start() sets the monitor running or starts a  *)
(* polling iteration again: the flag stays off and an ended loop stays     *)
(* ended.                                                                  *)
C35_MonitorStaysStopped ==
    [][ (~m_running /\ \E v \in Versions : poll[v] = "exited")
            => /\ ~m_running'
               /\ \A v \in Versions : poll[v] = "exited" => poll'[v] = "exited"
               /\ activity = "exited" => activity' = "exited" ]_vars

(* The application with writers of every event signal type, so that the    *)
(* loop inside initialize can reach the required number of types.          *)
AppAlertNext ==
    \/ AppNext
    \/ \E p \in WriterPools : RecordSignal(p, "liquidity_spike")

----------------------------------------------------------------------------
(* The specifications *)

Init == SInit /\ RInit /\ CInit /\ MInit /\ XInit

SpecStrategy == Init /\ [][SNext]_vars

SpecStop == Init /\ [][StopNext]_vars /\ StopFairness

Init_Vote == VoteInit /\ RInit /\ CInit /\ MInit /\ XInit

SpecVote == Init_Vote /\ [][VoteNext]_vars

Init_Score == SInit /\ RInit /\ CInit /\ MInit /\ ScoreInit

SpecScore == Init_Score /\ [][ScoreNext]_vars

SpecEngine == Init /\ [][EngineNext]_vars

Init_Handlers == SInit /\ RInit /\ CInit /\ MInit /\ HandlerInit

SpecHandlers == Init_Handlers /\ [][HandlerNext]_vars

SpecApp == Init /\ [][AppNext]_vars /\ AppFairness

SpecAppAlerts == Init /\ [][AppAlertNext]_vars

SpecSupervise == Init /\ [][SuperviseNext]_vars

SpecReadApi == Init /\ [][RNext]_vars

SpecClient == Init /\ [][CNext]_vars

SpecMonitor == Init /\ [][MNext]_vars

(* The services share no state: each is explored with the other at rest. *)
LoopsNext ==
    \/ MInit /\ SNext
    \/ SInit /\ MNext

SpecLoops == Init /\ [][LoopsNext]_vars

(* The batches of both loops: the evaluation loop over any table, and the  *)
(* monitor.                                                                *)
BatchNext ==
    \/ MInit /\ VoteNext
    \/ SInit /\ MNext

SpecBatch == (Init \/ Init_Vote) /\ [][BatchNext]_vars

====
